---- MODULE Spec2Model ----
(***************************************************************************)
(* A model of ProxyPool (proxy_pool): the slot arena (ctxPool / pool),     *)
(* its growth, its compaction (_prune) and the three prune strategies.     *)
(*                                                                         *)
(* Objects are modelled by identity: the i-th context object created by    *)
(* grow() has id i, and the Proxy created around it has the same id (the   *)
(* Proxy's target is fixed at creation).  The fields of the context        *)
(* objects live in `heap`; ctxPool and pool are the two arrays of          *)
(* references.  The value Zero is the number 0 that _prune() fills its new *)
(* arrays with.  Arrays are 1-based here; an index of 0 models the -1 of   *)
(* Array.prototype.findIndex.                                              *)
(***************************************************************************)
EXTENDS Integers, Sequences, FiniteSets, TLC

\* ---------------------------------------------------------------- bounds
MaxId == 3          \* context/proxy objects ever created by one pool
MaxTimers == 2      \* timeout objects alive at once
MaxLen == 3         \* longest ctxPool / pool array explored
MaxMisuse == 2      \* releases of a handle that is not checked out

\* ------------------------------------------------------------- constants
Zero == 0           \* Array(newCapacity).fill(0)
Null == "null"      \* data of a free slot
NoTimeout == 0      \* pruneGracePeriodTimeout = null
Foreign == -1       \* a Proxy that this pool never created
NoHandle == -2      \* "no handle": the call threw

MANUAL == "manual"
ON_FIXED_INTERVAL == "onFixedInterval"
ON_USAGE_THRESHOLD == "onUsageThreshold"

\* the argument tuples of get(); the pool stores them and never reads them
Args == {"a"}
Ids == 1 .. MaxId
TimerIds == 1 .. MaxTimers

Max(a, b) == IF a >= b THEN a ELSE b
Min(a, b) == IF a <= b THEN a ELSE b

\* Math.ceil(x * n / d) for a natural x and the fraction n/d
CeilMul(x, f) == (x * f[1] + f[2] - 1) \div f[2]

\* growthFactor, threshold and graceThreshold are fractions <<n, d>>; for
\* the sizes reached here Math.ceil of the double product equals the exact
\* ceiling.  0.2 is the default growthFactor.  The default maxSize (Infinity)
\* is left out: a pool creates at most MaxId objects, so it would never be
\* reached.  intervalMs and gracePeriodMs are left out too: a timer callback
\* may run between any two calls.
GrowthFactors == {<<1, 5>>}
Thresholds == {<<1, 2>>}

PruneConfigs ==
    {[strategy |-> MANUAL, fraction |-> <<0, 1>>]}
    \cup {[strategy |-> ON_FIXED_INTERVAL, fraction |-> t] : t \in Thresholds}
    \cup {[strategy |-> ON_USAGE_THRESHOLD, fraction |-> t] : t \in Thresholds}

\* the configurations tried; validateConfig() rejects some of them
InitialSizes == {0, 1, 2}
MaxSizes == {2, 3}

Configs ==
    [initialSize : InitialSizes,
     maxSize : MaxSizes,
     growthFactor : GrowthFactors,
     prune : PruneConfigs]

\* validateConfig(): TRUE iff it does not throw
validateConfig(cfg) ==
    /\ ~(cfg.initialSize <= 0)
    /\ ~(cfg.maxSize < 0 \/ cfg.maxSize <= cfg.initialSize)
    /\ ~(cfg.growthFactor[1] < 0)
    /\ ~(cfg.prune.fraction[1] < 0)

VARIABLES
    config,                   \* this.config
    ctxPool,                  \* this.ctxPool : array of context references
    pool,                     \* this.pool    : array of proxy references
    heap,                     \* the context objects: id -> [data, isFree]
    available,                \* this.available
    capacity,                 \* this._capacity
    nextId,                   \* id of the next object grow() creates
    pruneGracePeriodTimeout,  \* this.pruneGracePeriodTimeout
    timers,                   \* timeouts scheduled and not yet fired/cleared
    op,                       \* the last operation and its outcome
    outstanding,              \* checkouts not yet released: <<handle, args>>
    issued,                   \* handles get() has ever returned
    misuses,                  \* releases so far of a handle that was not checked out
    rounds,                   \* observer of get-n / release-n / get-n rounds
    grace                     \* observer of grace periods

vars == <<config, ctxPool, pool, heap, available, capacity, nextId,
          pruneGracePeriodTimeout, timers, op, outstanding, issued,
          misuses, rounds, grace>>

\* The part of the state the pool's methods work on, as one record
Self == [ctxPool |-> ctxPool, pool |-> pool, heap |-> heap,
         available |-> available, capacity |-> capacity, nextId |-> nextId]

FreshCtx == [data |-> Null, isFree |-> TRUE]

Empty == [ctxPool |-> <<>>, pool |-> <<>>, heap |-> [i \in Ids |-> FreshCtx],
          available |-> 0, capacity |-> 0, nextId |-> 1]

\* ctx.isFree read through an array entry; (0).isFree is undefined, falsy
isFree(S, entry) == entry # Zero /\ S.heap[entry].isFree

\* get usedCapacity()
usedCapacity(S) == S.capacity - S.available

\* how many slots grow(by) adds
toGrowBy(cfg, S, by) == Max(0, Min(by, cfg.maxSize - S.capacity))

\* grow(by)
grow(cfg, S, by) ==
    LET n == toGrowBy(cfg, S, by)
        new == [i \in 1 .. n |-> S.nextId + i - 1]
    IN  [S EXCEPT !.ctxPool = S.ctxPool \o new,
                  !.pool = S.pool \o new,
                  !.capacity = S.capacity + n,
                  !.available = S.available + n,
                  !.nextId = S.nextId + n]

\* findFree with the isFree test forgotten: the first slot, free or not
findFree_anySlot(S) ==
    LET hits == {i \in 1 .. Len(S.ctxPool) : S.ctxPool[i] # Zero}
    IN  IF hits = {} THEN 0 ELSE CHOOSE i \in hits : \A j \in hits : i <= j

\* Array.findIndex over ctxPool for the first free context; 0 when none
findFree(S) ==
    LET hits == {i \in 1 .. Len(S.ctxPool) : isFree(S, S.ctxPool[i])}
    IN  IF hits = {} THEN 0 ELSE CHOOSE i \in hits : \A j \in hits : i <= j

\* findProxy with the comparison inverted (it !== obj)
findProxy_inverted(S, obj) ==
    LET hits == {i \in 1 .. Len(S.pool) : S.pool[i] # obj}
    IN  IF hits = {} THEN 0 ELSE CHOOSE i \in hits : \A j \in hits : i <= j

\* Array.findIndex over pool for the proxy obj; 0 when none
findProxy(S, obj) ==
    LET hits == {i \in 1 .. Len(S.pool) : S.pool[i] = obj}
    IN  IF hits = {} THEN 0 ELSE CHOOSE i \in hits : \A j \in hits : i <= j

\* taken with the arguments of the call not bound to the slot
taken_unbound(S, index, args) ==
    [S EXCEPT !.heap[S.ctxPool[index]] = [data |-> Null, isFree |-> FALSE],
              !.available = S.available - 1]

\* what get() does to the slot it found: mark it used, bind the arguments
taken(S, index, args) ==
    [S EXCEPT !.heap[S.ctxPool[index]] = [data |-> args, isFree |-> FALSE],
              !.available = S.available - 1]

\* released with the isFree flag left as it was
released_keepsFlag(S, index) ==
    [S EXCEPT !.heap[S.ctxPool[index]].data = Null,
              !.available = S.available + 1]

\* what release() does to the slot it found: clear the data, mark it free
released(S, index) ==
    [S EXCEPT !.heap[S.ctxPool[index]] = [data |-> Null, isFree |-> TRUE],
              !.available = S.available + 1]

\* an assignment arr[k] = v of JavaScript (k is 1-based here): writing one
\* past the end of an array extends it
setAt(arr, k, v) == IF k <= Len(arr) THEN [arr EXCEPT ![k] = v] ELSE Append(arr, v)

put(acc, c, p) ==
    [ctxPool |-> setAt(acc.ctxPool, acc.filled + 1, c),
     pool |-> setAt(acc.pool, acc.filled + 1, p),
     filled |-> acc.filled + 1]

\* first loop of _prune(): copy every slot that is not free
RECURSIVE copyUsed(_, _, _)
copyUsed(S, index, acc) ==
    IF index > S.capacity THEN acc
    ELSE IF isFree(S, S.ctxPool[index]) THEN copyUsed(S, index + 1, acc)
    ELSE copyUsed(S, index + 1, put(acc, S.ctxPool[index], S.pool[index]))

\* second loop of _prune(): copy free slots until filled === newCapacity
RECURSIVE copyFree(_, _, _, _)
copyFree(S, index, acc, newCapacity) ==
    IF index > S.capacity THEN acc
    ELSE IF acc.filled = newCapacity THEN acc
    ELSE IF ~isFree(S, S.ctxPool[index]) THEN copyFree(S, index + 1, acc, newCapacity)
    ELSE copyFree(S, index + 1, put(acc, S.ctxPool[index], S.pool[index]), newCapacity)

\* the capacity _prune() rebuilds the arrays for
newCapacityOf(cfg, S) ==
    Max(cfg.initialSize,
        CeilMul(usedCapacity(S),
                <<cfg.growthFactor[2] + cfg.growthFactor[1], cfg.growthFactor[2]>>))

\* _prune()
prune_(cfg, S) ==
    IF S.capacity <= cfg.initialSize THEN S
    ELSE LET newCapacity == newCapacityOf(cfg, S)
             fill == [i \in 1 .. newCapacity |-> Zero]
             a1 == copyUsed(S, 1, [ctxPool |-> fill, pool |-> fill, filled |-> 0])
             used == a1.filled
             a2 == copyFree(S, 1, a1, newCapacity)
         IN  [S EXCEPT !.ctxPool = a2.ctxPool,
                       !.pool = a2.pool,
                       !.capacity = newCapacity,
                       !.available = a2.filled - used]

\* clearTimeout left out: the timeout stays pending
clearTimeout_never(pending, t) == pending

\* clearTimeout(this.pruneGracePeriodTimeout) when it is set
clearTimeout(pending, t) == IF t # NoTimeout THEN pending \ {t} ELSE pending

\* the Timeout object setTimeout returns: one that is not pending
newTimeout(pending) == CHOOSE t \in TimerIds \ pending : \A u \in TimerIds \ pending : t <= u

\* this.available >= this.capacity * threshold
thresholdReached(cfg, S) ==
    S.available * cfg.prune.fraction[2] >= S.capacity * cfg.prune.fraction[1]

\* a release() that never schedules the timeout
rearms_never(cfg, S) == FALSE

\* whether release() (re)arms the grace period timeout
rearms(cfg, S) == cfg.prune.strategy = ON_USAGE_THRESHOLD /\ thresholdReached(cfg, S)

\* mayPrune with the strategy check left out
mayPrune_always(cfg) == TRUE

\* whether the public prune() is allowed to run
mayPrune(cfg) == cfg.prune.strategy = MANUAL

\* the handles of a set of checkouts
Handles(S) == {o[1] : o \in S}

Install(S) ==
    /\ ctxPool' = S.ctxPool
    /\ pool' = S.pool
    /\ heap' = S.heap
    /\ available' = S.available
    /\ capacity' = S.capacity
    /\ nextId' = S.nextId

Done(kind, handle, err) ==
    op' = [kind |-> kind, handle |-> handle, err |-> err]

\* the observer of rounds before any get (see Track below)
NoRound == [phase |-> "first", first |-> <<>>, released |-> {}, got |-> 0,
            reused |-> FALSE]

\* the observer of grace periods before any release (see Watch below)
NoGrace == [armed |-> FALSE, superseded |-> FALSE, crossed |-> FALSE,
            runs |-> 0, epoch |-> 0]

\* new ProxyPool(accessors, config)
Init ==
    /\ config \in {cfg \in Configs : validateConfig(cfg)}
    /\ LET S == IF config.initialSize > 0
                THEN grow(config, Empty, config.initialSize) ELSE Empty
       IN  /\ ctxPool = S.ctxPool
           /\ pool = S.pool
           /\ heap = S.heap
           /\ available = S.available
           /\ capacity = S.capacity
           /\ nextId = S.nextId
    /\ pruneGracePeriodTimeout = NoTimeout
    /\ timers = {}
    /\ op = [kind |-> "new", handle |-> NoHandle, err |-> FALSE]
    /\ outstanding = {}
    /\ issued = {}
    /\ misuses = 0
    /\ rounds = NoRound
    /\ grace = NoGrace

\* the state get() leaves after its growth step
grown(cfg, S) ==
    IF S.available <= 0
    THEN grow(cfg, S, CeilMul(S.capacity, cfg.growthFactor) + 1)
    ELSE S

\* get(...args)
Get(args) ==
    LET S1 == grown(config, Self)
        index == findFree(S1)
    IN  /\ S1.nextId <= MaxId + 1
        /\ IF index = 0
           THEN \* this.ctxPool[-1] is undefined: TypeError
                /\ Install(S1)
                /\ Done("get", NoHandle, TRUE)
                /\ UNCHANGED <<outstanding, issued>>
           ELSE /\ Install(taken(S1, index, args))
                /\ Done("get", S1.pool[index], FALSE)
                /\ outstanding' = outstanding \cup {<<S1.pool[index], args>>}
                /\ issued' = issued \cup {S1.pool[index]}
        /\ UNCHANGED <<config, pruneGracePeriodTimeout, timers, misuses>>

\* release(obj)
Release(obj) ==
    LET index == findProxy(Self, obj)
    IN  IF index = 0
        THEN /\ Done("release", obj, TRUE)
             /\ UNCHANGED <<config, ctxPool, pool, heap, available, capacity,
                            nextId, pruneGracePeriodTimeout, timers,
                            outstanding, issued, misuses>>
        ELSE LET S1 == released(Self, index)
                 pending == clearTimeout(timers, pruneGracePeriodTimeout)
                 held == \E o \in outstanding : o[1] = obj
             IN  /\ Install(S1)
                 /\ IF rearms(config, S1)
                    THEN /\ TimerIds \ pending # {}
                         /\ pruneGracePeriodTimeout' = newTimeout(pending)
                         /\ timers' = pending \cup {newTimeout(pending)}
                    ELSE UNCHANGED <<pruneGracePeriodTimeout, timers>>
                 /\ Done("release", obj, FALSE)
                 /\ outstanding' = {o \in outstanding : o[1] # obj}
                 /\ misuses' = misuses + (IF held THEN 0 ELSE 1)
                 /\ misuses' <= MaxMisuse
                 /\ UNCHANGED <<config, issued>>

\* prune(), the public method
Prune ==
    /\ mayPrune(config) => Len(prune_(config, Self).ctxPool) <= MaxLen
    /\ IF ~mayPrune(config)
       THEN /\ Done("prune", NoHandle, TRUE)
            /\ UNCHANGED <<ctxPool, pool, heap, available, capacity, nextId>>
       ELSE /\ Install(prune_(config, Self))
            /\ Done("prune", NoHandle, FALSE)
    /\ UNCHANGED <<config, pruneGracePeriodTimeout, timers, outstanding, issued, misuses>>

\* the setInterval callback of the constructor
IntervalTick ==
    /\ config.prune.strategy = ON_FIXED_INTERVAL
    /\ Len(prune_(config, Self).ctxPool) <= MaxLen
    /\ Install(prune_(config, Self))
    /\ Done("interval", NoHandle, FALSE)
    /\ UNCHANGED <<config, pruneGracePeriodTimeout, timers, outstanding, issued, misuses>>

\* the setTimeout callback of release()
GraceTimeout(t) ==
    /\ t \in timers
    /\ Len(prune_(config, Self).ctxPool) <= MaxLen
    /\ timers' = timers \ {t}
    /\ Install(prune_(config, Self))
    /\ Done("timeout", NoHandle, FALSE)
    /\ UNCHANGED <<config, pruneGracePeriodTimeout, outstanding, issued, misuses>>

\* ---------------------------------------------------------------------
\* The observer of rounds.  `first` is the row of handles the latest
\* successful gets returned with nothing but failed calls in between;
\* `released` are the handles of that row released since, each once;
\* `got` counts the gets of the second round.  A second round starts with
\* the first get after exactly the last n handles of the row were released;
\* `reused` says that the row is a second round that has just been completed.
\* the last n handles of the row, in the order they were checked out
suffix(r) ==
    LET n == Cardinality(r.released)
    IN  [i \in 1 .. n |-> r.first[Len(r.first) - n + i]]

Range(f) == {f[i] : i \in DOMAIN f}

\* the releases so far are exactly the handles of a suffix of the row
suffixReleased(r) == r.released # {} /\ Range(suffix(r)) = r.released

\* the handles a get of the second round is expected to return, in order
inSecond(r) == r.phase = "second" \/ (r.phase = "release" /\ suffixReleased(r))
expected(r) == suffix(r)

afterGet(r, h) ==
    IF inSecond(r)
    THEN IF r.got + 1 = Len(expected(r))
         THEN [phase |-> "first", first |-> expected(r), released |-> {}, got |-> 0,
               reused |-> TRUE]
         ELSE [r EXCEPT !.phase = "second", !.got = r.got + 1]
    ELSE IF r.phase = "first"
         THEN [r EXCEPT !.first = Append(r.first, h), !.reused = FALSE]
         ELSE [NoRound EXCEPT !.first = <<h>>]

afterRelease(r, h, held) ==
    IF held /\ r.phase \in {"first", "release"}
            /\ h \in Range(r.first) \ r.released
    THEN [r EXCEPT !.phase = "release", !.released = r.released \cup {h},
                   !.reused = FALSE]
    ELSE NoRound

\* a call that threw changed nothing and is not part of any round
Track ==
    rounds' =
        IF op'.err THEN rounds
        ELSE IF op'.kind = "get" THEN afterGet(rounds, op'.handle)
        ELSE IF op'.kind = "release"
             THEN afterRelease(rounds, op'.handle, op'.handle \in Handles(outstanding))
        ELSE NoRound

Frozen == UNCHANGED <<rounds, grace>>

Next ==
    \/ (\E args \in Args : Get(args)) /\ Frozen
    \/ (\E obj \in issued \cup {Foreign} : Release(obj)) /\ Frozen
    \/ Prune /\ Frozen
    \/ IntervalTick /\ Frozen
    \/ (\E t \in TimerIds : GraceTimeout(t)) /\ Frozen

Spec == Init /\ [][Next]_vars

\* Rounds are observed on MANUAL pools, where the caller may run the
\* Compactor between any two calls, and releases each handle once.
InitRounds == Init /\ config.prune.strategy = MANUAL

NextRounds ==
    \/ (\E args \in Args : Get(args)) /\ Track /\ UNCHANGED grace
    \/ (\E obj \in Handles(outstanding) \cup {Foreign} : Release(obj)) /\ Track
          /\ UNCHANGED grace
    \/ Prune /\ Track /\ UNCHANGED grace

SpecRounds == InitRounds /\ [][NextRounds]_vars

\* get() does not read the strategy.  On a MANUAL pool the caller may run
\* the Compactor between any two calls, which covers every point at which
\* an interval or a timeout could run it; releases are as in Spec.
NextManual ==
    \/ (\E args \in Args : Get(args)) /\ Frozen
    \/ (\E obj \in issued \cup {Foreign} : Release(obj)) /\ Frozen
    \/ Prune /\ Frozen

SpecManual == InitRounds /\ [][NextManual]_vars

\* ---------------------------------------------------------------------
\* The observer of grace periods.  A release that leaves
\* available >= capacity * threshold starts a grace period: `armed` until
\* the Compactor runs, `superseded` when the release found a timeout still
\* pending, `crossed` once a get of this period has left
\* available < capacity * threshold, `runs` the Compactor runs since the
\* period started (2 stands for two or more), `epoch` flipped by every
\* start of a period where periods are told apart (flip = 1).
afterArming(g, wasPending, flip) ==
    [armed |-> TRUE, superseded |-> wasPending, crossed |-> FALSE,
     runs |-> 0, epoch |-> (g.epoch + flip) % 2]

Watch(flip) ==
    grace' =
        IF op'.err THEN grace
        ELSE IF op'.kind = "release"
             THEN IF thresholdReached(config, Self')
                  THEN afterArming(grace, timers # {}, flip)
                  ELSE grace
        ELSE IF op'.kind = "get"
             THEN IF grace.armed /\ ~thresholdReached(config, Self')
                  THEN [grace EXCEPT !.crossed = TRUE]
                  ELSE grace
        ELSE IF op'.kind = "timeout"
             THEN [grace EXCEPT !.armed = FALSE, !.runs = Min(2, grace.runs + 1)]
        ELSE grace

\* Grace periods are observed on ON_USAGE_THRESHOLD pools, over any
\* interleaving of gets, releases and timeouts.
InitTimers == Init /\ config.prune.strategy = ON_USAGE_THRESHOLD

NextTimers ==
    \/ (\E args \in Args : Get(args)) /\ Watch(0) /\ UNCHANGED rounds
    \/ (\E obj \in issued \cup {Foreign} : Release(obj)) /\ Watch(0) /\ UNCHANGED rounds
    \/ (\E t \in TimerIds : GraceTimeout(t)) /\ Watch(0) /\ UNCHANGED rounds

SpecTimers == InitTimers /\ [][NextTimers]_vars

\* The timers of the event loop: a timeout that stays pending fires.  The
\* bound on the arrays is put on the calls that leave a timeout pending, so
\* that the bound never keeps a pending timeout from firing.  Expire is what
\* a firing timeout does to the pending timeouts; no get and no release takes
\* such a step, since release() clears a timeout only to schedule another.
\* Callers release the handles they hold, or a handle of another pool.
InBound == timers' # {} => Len(prune_(config, Self').ctxPool) <= MaxLen

Fire == (\E t \in TimerIds : GraceTimeout(t)) /\ Watch(1) /\ UNCHANGED rounds

NextFair ==
    \/ (\E args \in Args : Get(args)) /\ Watch(1) /\ InBound /\ UNCHANGED rounds
    \/ (\E obj \in Handles(outstanding) \cup {Foreign} : Release(obj)) /\ Watch(1)
          /\ InBound /\ UNCHANGED rounds
    \/ Fire

Expire == \E t \in timers : timers' = timers \ {t}

FairSpecTimers == InitTimers /\ [][NextFair]_vars /\ WF_timers(Expire)

\* ------------------------------------------------------------ properties
FreeSlots == {i \in 1 .. Len(ctxPool) : isFree(Self, ctxPool[i])}
IsGet == op'.kind = "get"
PoolState == <<ctxPool, pool, heap, available, capacity>>

\* C1: the available counter equals the number of slots whose isFree flag
\* is true, after any sequence of get, release (also of the same handle
\* twice) and prune.
C1_AvailableCountsFree == available = Cardinality(FreeSlots)

\* C2: 0 <= available <= capacity <= maxSize in every reachable state of a
\* validly configured pool.
C2_CapacityBounds ==
    0 <= available /\ available <= capacity /\ capacity <= config.maxSize

\* C3: as long as every release was of a checked-out handle, usedCapacity
\* equals the number of handles checked out and not yet released.
C3_UsedCountsOutstanding ==
    misuses = 0 => usedCapacity(Self) = Cardinality(Handles(outstanding))

\* C4: every handle checked out and not yet released is still in the pool
\* array, paired with its slot, which is marked used and bound to the
\* arguments of that checkout: compaction never drops a used slot.
C4_UsedSlotsKept ==
    \A o \in outstanding :
        \E i \in 1 .. Len(pool) :
            /\ pool[i] = o[1]
            /\ ctxPool[i] = o[1]
            /\ ~heap[o[1]].isFree
            /\ heap[o[1]].data = o[2]

\* C6: a get returns a handle whenever capacity < maxSize or some slot is
\* free.
C6_GetSucceeds ==
    [][IsGet /\ (capacity < config.maxSize \/ FreeSlots # {}) => ~op'.err]_vars

\* C9: a get with available = 0 at capacity c0 leaves capacity
\* min(maxSize, c0 + ceil(c0 * growthFactor) + 1); a get with available > 0
\* leaves capacity unchanged.
C9_GrowthFormula ==
    [][IsGet =>
        /\ available = 0 =>
              capacity' = Min(config.maxSize,
                              capacity + CeilMul(capacity, config.growthFactor) + 1)
        /\ available > 0 => capacity' = capacity]_vars

\* C5: a get never returns the handle of a slot whose isFree flag is false,
\* so no two outstanding checkouts ever hold the same handle.
C5_GetReturnsFreeSlot ==
    [][IsGet /\ ~op'.err =>
        /\ heap[op'.handle].isFree
        /\ ~heap'[op'.handle].isFree
        /\ op'.handle \notin Handles(outstanding)
        /\ Cardinality(Handles(outstanding')) = Cardinality(Handles(outstanding)) + 1]_vars

\* C5's case: a get reused a slot below one that is still checked out
C5_Witness ==
    /\ op.kind = "get" /\ ~op.err
    /\ \E o \in outstanding : o[1] > op.handle

\* C7: release of a handle that is not in the pool array throws and leaves
\* capacity, available, every slot and the pending timer unchanged.
C7_UnownedReleaseFails ==
    [][op'.kind = "release" /\ (\A i \in 1 .. Len(pool) : pool[i] # op'.handle) =>
        /\ op'.err
        /\ UNCHANGED <<PoolState, pruneGracePeriodTimeout, timers>>]_vars

\* C7's case: the release of a handle that a compaction discarded threw
\* while a grace period timeout was pending
C7_Witness ==
    /\ op.kind = "release" /\ op.err
    /\ op.handle \in issued
    /\ timers # {}

\* C8: the public prune() throws and changes nothing unless the strategy is
\* MANUAL, and then it runs the Compactor.
C8_PruneOnlyManual ==
    [][op'.kind = "prune" =>
        IF config.prune.strategy # MANUAL
        THEN op'.err /\ UNCHANGED PoolState
        ELSE ~op'.err /\ Self' = prune_(config, Self)]_vars

\* C8's case: prune() threw on a pool that a Compactor run would have shrunk
C8_Witness ==
    /\ op.kind = "prune" /\ op.err
    /\ prune_(config, Self) # Self

\* C10: with no compaction in between and each handle released once, after
\* n gets in a row and the release of all n (in any order), the i-th of the
\* next gets returns the i-th handle of the first round and creates no slot.
C10_RoundsReuseHandles ==
    [][IsGet /\ ~op'.err /\ inSecond(rounds) =>
        /\ op'.handle = expected(rounds)[rounds.got + 1]
        /\ nextId' = nextId
        /\ Len(pool') = Len(pool)]_vars

\* C10's case: a second round of two handles has just been completed,
\* with a third handle checked out throughout
C10_Witness ==
    /\ op.kind = "get" /\ ~op.err
    /\ rounds.reused /\ Len(rounds.first) >= 2
    /\ Cardinality(outstanding) > Len(rounds.first)
    /\ misuses = 0

IsPrune == op'.kind = "prune" /\ ~op'.err

\* C11: on a MANUAL pool, once every outstanding handle has been released,
\* each once, a call to prune() leaves capacity = initialSize and
\* usedCapacity = 0.
C11_PruneOfIdlePool ==
    [][IsPrune /\ outstanding = {} /\ misuses = 0 =>
        capacity' = config.initialSize /\ usedCapacity(Self') = 0]_vars

IsTimeout == op'.kind = "timeout"

\* C12: in an ON_USAGE_THRESHOLD pool at most one grace period timeout is
\* pending at any time, the one this.pruneGracePeriodTimeout refers to: a
\* release that leaves available >= capacity * threshold cancels the pending
\* timeout before it schedules the new one.
C12_OnePendingTimeout ==
    /\ Cardinality(timers) <= 1
    /\ timers \subseteq {pruneGracePeriodTimeout}
    /\ op.kind = "release" /\ ~op.err /\ thresholdReached(config, Self) =>
           timers = {pruneGracePeriodTimeout}

\* C12's case: a release started a grace period while the timeout of the
\* period before was still pending
C12_Witness ==
    /\ op.kind = "release" /\ ~op.err
    /\ grace.armed /\ grace.superseded
    /\ timers # {}

\* C13: in an ON_USAGE_THRESHOLD pool the Compactor runs only when the most
\* recently armed grace period timeout fires: the timeout that fires is the
\* one this.pruneGracePeriodTimeout refers to, a release that left
\* available >= capacity * threshold has armed it with no Compactor run
\* since, and no get or release removes a slot.
C13_OnlyLatestTimeoutRuns ==
    [][IF IsTimeout
       THEN /\ timers \ timers' = {pruneGracePeriodTimeout}
            /\ grace.armed
            /\ Self' = prune_(config, Self)
       ELSE SubSeq(pool', 1, Len(pool)) = pool]_vars

\* C13's case: the Compactor ran on the timeout of a release that had
\* superseded the timeout of an earlier release, and discarded a slot
C13_Witness ==
    /\ op.kind = "timeout"
    /\ grace.superseded /\ grace.runs = 1
    /\ timers = {}
    /\ \E h \in issued : \A i \in 1 .. Len(pool) : pool[i] # h

\* C14: in an ON_USAGE_THRESHOLD pool a get that leaves
\* available < capacity * threshold during the grace period aborts the
\* prune: the Compactor does not run for that arming, so the timeout of that
\* arming leaves the pool as it is.
C14_CheckoutAbortsPrune ==
    [][IsTimeout /\ grace.crossed => UNCHANGED PoolState]_vars

\* C15: in an ON_FIXED_INTERVAL pool a tick of the interval with
\* available < capacity * graceThreshold leaves capacity and the slot
\* sequence unchanged.
C15_TickGatedByThreshold ==
    [][op'.kind = "interval" /\ ~thresholdReached(config, Self) =>
        UNCHANGED <<capacity, ctxPool, pool>>]_vars

C17_LengthsAgree == capacity = Len(ctxPool) /\ capacity = Len(pool)

\* C18: a run of the Compactor never increases capacity, and a second
\* prune right after it leaves capacity as the first left it.
C18_PruneNeverGrows ==
    [][IsPrune => capacity' <= capacity
                  /\ prune_(config, Self').capacity = capacity']_vars

\* C19: a run of the Compactor on a pool with capacity > initialSize and u
\* used slots ends with capacity = max(initialSize, ceil(u * (1 + growthFactor)))
\* and available = capacity - u; on a pool with capacity <= initialSize it
\* changes nothing.
C19_PruneResult ==
    [][IsPrune =>
        IF capacity > config.initialSize
        THEN /\ capacity' = newCapacityOf(config, Self)
             /\ available' = capacity' - usedCapacity(Self)
        ELSE UNCHANGED PoolState]_vars

\* C20: for every index below capacity, the entry of pool is the proxy
\* created for the context at the same index of ctxPool, and both are
\* objects that grow() created.
C20_SlotsPaired ==
    \A i \in 1 .. capacity :
        /\ i <= Len(pool) /\ i <= Len(ctxPool)
        /\ pool[i] # Zero /\ ctxPool[i] # Zero
        /\ pool[i] = ctxPool[i]

\* C21: a get on a pool with capacity = maxSize and no free slot adds no
\* slot, returns no handle, and leaves capacity, available (which is not
\* negative afterwards) and the free flag and context of every slot as they
\* were.
C21_ExhaustedGetChangesNothing ==
    [][IsGet /\ capacity = config.maxSize /\ FreeSlots = {} =>
        /\ op'.err /\ op'.handle = NoHandle
        /\ UNCHANGED <<PoolState, nextId, outstanding>>
        /\ available' >= 0]_vars

\* C21's case: a get failed on a full pool at maxSize that holds only
\* slots grow() created, all of them checked out
C21_Witness ==
    /\ op.kind = "get" /\ op.err
    /\ capacity = config.maxSize /\ Len(ctxPool) = capacity
    /\ available = 0
    /\ Cardinality(Handles(outstanding)) = capacity

\* C22: every successful get returns the handle paired with the
\* lowest-index slot that is free after the growth step, binds the arguments
\* of the call to that slot, and changes the free flag and context of no
\* other slot.
C22_FirstFit ==
    [][IsGet /\ ~op'.err =>
        \E i \in 1 .. Len(pool') :
            /\ pool'[i] = op'.handle /\ ctxPool'[i] = op'.handle
            /\ op'.handle < nextId => heap[op'.handle].isFree
            /\ \A j \in 1 .. i - 1 : ~isFree(Self', ctxPool'[j])
            /\ \A j \in 1 .. i - 1 : j <= Len(ctxPool) /\ ctxPool'[j] = ctxPool[j]
                                      /\ ~isFree(Self, ctxPool[j])
            /\ ~heap'[op'.handle].isFree
            /\ <<op'.handle, heap'[op'.handle].data>> \in outstanding'
            /\ \A id \in DOMAIN heap \ {op'.handle} : heap'[id] = heap[id]]_vars

\* C22's case: a get returned the handle of a slot that a compaction had
\* moved to another index, with a used slot below it and a free slot above
C22_Witness ==
    /\ op.kind = "get" /\ ~op.err
    /\ \E i, j, k \in 1 .. Len(pool) :
          /\ k < i /\ i < j
          /\ pool[i] = op.handle /\ op.handle # i
          /\ ctxPool[k] # Zero /\ ~isFree(Self, ctxPool[k])
          /\ isFree(Self, ctxPool[j])

====
